---- MODULE Spec2Model ----
(***************************************************************************)
(* Verification model of the 3d-face-particle-sim repository.              *)
(*                                                                         *)
(* Part I   - the model cache (utils/modelCache: loadModel,                *)
(*            clearModelCache) and the loading components (Model,          *)
(*            OptimizedFaceModel, ParticleFace) that await it.             *)
(* Part II  - the instanced particle pipeline (InstancedSphereParticles:   *)
(*            extraction useMemo, initialize-particles effect, useFrame    *)
(*            callback; particleUtils) and the particle attribute setup of *)
(*            UnifiedWireframeToParticleTransition.                        *)
(*                                                                         *)
(* Numbers are fixed point.  A life value is an integer count of           *)
(* LifeStep-ths (one unit = 0.005, the per-frame life increment at         *)
(* animationSpeed 1), so 1.0 is LifeOne.                                   *)
(***************************************************************************)
EXTENDS Integers, Sequences, FiniteSets, TLC

VARIABLES
    \* ---- Part I: modelCache module state and loading component ----
    modelCache,        \* Map<string, GLTF>: url -> id of the load whose gltf is cached, 0 = no entry
    loadingPromises,   \* Map<string, Promise<GLTF>>: url -> id of the load the promise wraps, 0 = no entry
    loads,             \* every loader.load issued so far: <<[url, status, cleared]>>
    calls,             \* every direct loadModel/preloadModel call made so far
    comp,              \* React state of the loading component
    effects,           \* every run of the component's load effect (closure: url, mounted, awaited load)
    onLoadCalls,       \* number of onLoad invocations
    onErrorCalls,      \* number of onError invocations
    \* ---- Part II: InstancedSphereParticles ----
    mesh,              \* the face mesh of the loaded gltf (positions, uv attribute, triangle count)
    controls,          \* leva "Particle System" values the last render saw
    extractedData,     \* value of the extraction useMemo: NoData or [positions, uvs, count]
    meshRef,           \* meshRef.current: NoMesh or the instancedMesh [count, instanceMatrix]
    particlesRef,      \* particlesRef.current: the ParticleData array
    instanceUV,        \* currentGeometry.attributes.instanceUV (<<>> = not set)
    instanceLifeData,  \* currentGeometry.attributes.instanceLifeData (<<>> = not set)
    effectPending,     \* the initialize-particles effect is scheduled and has not run yet
    seen,              \* what the latest useFrame callback that got past its guard iterated over
    overlay,           \* instanceLifeData built by UnifiedWireframeToParticleTransition (<<>> = not built)
    \* ---- Part III: animation loops ----
    transition,        \* UnifiedWireframeToParticleTransition: clock, pending timeouts, React state, uniforms
    trails,            \* VerticalTrails: props and the state ref of every TrailActor
    \* ---- Part IV: functions ----
    probe              \* the latest call of one of the functions: its name, arguments and result

loaderVars == <<modelCache, loadingPromises, loads, calls, comp, effects, onLoadCalls, onErrorCalls>>

particleVars == <<mesh, controls, extractedData, meshRef, particlesRef, instanceUV,
                  instanceLifeData, effectPending, seen, overlay>>

animVars == <<transition, trails, probe>>

vars == <<modelCache, loadingPromises, loads, calls, comp, effects, onLoadCalls, onErrorCalls,
          mesh, controls, extractedData, meshRef, particlesRef, instanceUV,
          instanceLifeData, effectPending, seen, overlay, transition, trails, probe>>

-----------------------------------------------------------------------------
(* Bounds *)
NumUrls == 2
MaxLoads == 3
MaxCalls == 2
MaxEffects == 2

Urls == 1..NumUrls

-----------------------------------------------------------------------------
(* Part I - modelCache *)

\* loads that are in flight for url u
InFlight(u) == {l \in 1..Len(loads) : loads[l].url = u /\ loads[l].status = "inflight"}

\* loads for url u that are in flight or have succeeded
Live(u) == {l \in 1..Len(loads) : loads[l].url = u /\ loads[l].status \in {"inflight", "ok"}}

\* loadModel(url): the id of the load the returned promise settles with, and
\* whether the call issues loader.load itself.
LoadModelHit(u) ==
    IF modelCache[u] # 0 THEN modelCache[u]
    ELSE IF loadingPromises[u] # 0 THEN loadingPromises[u]
    ELSE 0

\* the state change of loadModel(url); ld is the load the caller ends up awaiting
LoadModel(u, ld) ==
    IF LoadModelHit(u) # 0
    THEN /\ ld = LoadModelHit(u)
         /\ UNCHANGED <<modelCache, loadingPromises, loads>>
    ELSE /\ Len(loads) < MaxLoads
         /\ ld = Len(loads) + 1
         /\ loads' = Append(loads, [url |-> u, status |-> "inflight", cleared |-> FALSE])
         /\ loadingPromises' = [loadingPromises EXCEPT ![u] = ld]
         /\ UNCHANGED modelCache

\* a caller other than the component (preloadModel, or any other loadModel call)
CallLoadModel(u) ==
    /\ Len(calls) < MaxCalls
    /\ \E ld \in 1..MaxLoads :
        /\ LoadModel(u, ld)
        /\ calls' = Append(calls, [url |-> u, load |-> ld,
                                   started |-> (LoadModelHit(u) = 0),
                                   live |-> Live(u)])
    /\ UNCHANGED <<comp, effects, onLoadCalls, onErrorCalls, particleVars, animVars>>

\* modelCache.clear(); loadingPromises.clear().  The field cleared of a load
\* records that the maps were cleared while the load was in flight.
ClearModelCache ==
    /\ modelCache' = [u \in Urls |-> 0]
    /\ loadingPromises' = [u \in Urls |-> 0]
    /\ loads' = [l \in 1..Len(loads) |->
                    [loads[l] EXCEPT !.cleared = @ \/ loads[l].status = "inflight"]]
    /\ UNCHANGED <<calls, comp, effects, onLoadCalls, onErrorCalls, particleVars, animVars>>

\* loader.load onLoad callback of load l
LoadSuccess(l) ==
    /\ l \in 1..Len(loads)
    /\ loads[l].status = "inflight"
    /\ modelCache' = [modelCache EXCEPT ![loads[l].url] = l]
    /\ loadingPromises' = [loadingPromises EXCEPT ![loads[l].url] = 0]
    /\ loads' = [loads EXCEPT ![l].status = "ok"]
    /\ UNCHANGED <<calls, comp, effects, onLoadCalls, onErrorCalls, particleVars, animVars>>

\* loader.load onError callback of load l
LoadFailure(l) ==
    /\ l \in 1..Len(loads)
    /\ loads[l].status = "inflight"
    /\ loadingPromises' = [loadingPromises EXCEPT ![loads[l].url] = 0]
    /\ loads' = [loads EXCEPT ![l].status = "failed"]
    /\ UNCHANGED <<modelCache, calls, comp, effects, onLoadCalls, onErrorCalls, particleVars, animVars>>

-----------------------------------------------------------------------------
(* Part I - loading component (Model / OptimizedFaceModel / ParticleFace) *)

\* number of vertices of the meshes of the model at url u
ModelVertices(u) == IF u % 2 = 1 THEN 3 ELSE 0
\* size of the test pattern ParticleFace creates when it found no vertices
TestPattern == 1000
\* vertices.length at the end of extractVertices
ExtractedVertices(u) == IF ModelVertices(u) = 0 THEN TestPattern ELSE ModelVertices(u)
\* no <points> object is rendered
NoPoints == -1

\* points is the number of positions in the geometry of the <points> object
\* ParticleFace renders (NoPoints while it renders a placeholder), onLoadArg
\* the count passed to the latest onLoad
CompUnmounted ==
    [mounted |-> FALSE, url |-> 0, loading |-> TRUE, error |-> FALSE, gltf |-> 0,
     points |-> NoPoints, onLoadArg |-> 0]

\* cleanup function returned by the effect: mounted = false.  The field
\* abandoned records that the cleanup ran while the awaited load was in flight.
Cleanup(effs) ==
    [e \in 1..Len(effs) |->
        [effs[e] EXCEPT !.mounted = FALSE,
                        !.abandoned = effs[e].abandoned
                                      \/ (effs[e].mounted /\ loads[effs[e].load].status = "inflight")]]

\* body of the effect up to the await: setLoading(true); setError(null); await loadModel(url).
\* The field pointsRef records that the <points> object was rendered when the
\* effect ran and the model was cached: the continuation may then run before
\* the render that replaces it by the placeholder.
RunEffect(u, c, effs) ==
    /\ Len(effs) < MaxEffects
    /\ \E ld \in 1..MaxLoads :
        /\ LoadModel(u, ld)
        /\ effects' = Append(effs, [url |-> u, mounted |-> TRUE, load |-> ld, settled |-> FALSE,
                                     abandoned |-> FALSE,
                                     pointsRef |-> (c.points # NoPoints /\ modelCache[u] # 0)])
    /\ comp' = [c EXCEPT !.mounted = TRUE, !.url = u, !.loading = TRUE, !.error = FALSE,
                         !.points = NoPoints]

Mount(u) ==
    /\ ~comp.mounted
    /\ RunEffect(u, CompUnmounted, effects)
    /\ UNCHANGED <<calls, onLoadCalls, onErrorCalls, particleVars, animVars>>

\* a dependency of the effect changes (url, or the identity of onLoad/onError
\* when u is the current url): cleanup of the previous run, then a new run
ChangeDeps(u) ==
    /\ comp.mounted
    /\ RunEffect(u, comp, Cleanup(effects))
    /\ UNCHANGED <<calls, onLoadCalls, onErrorCalls, particleVars, animVars>>

Unmount ==
    /\ comp.mounted
    /\ effects' = Cleanup(effects)
    /\ comp' = CompUnmounted
    /\ UNCHANGED <<modelCache, loadingPromises, loads, calls, onLoadCalls, onErrorCalls, particleVars, animVars>>

\* if (pointsRef.current) pointsRef.current.geometry = particleGeometry, then
\* setLoading(false): the positions in the geometry of the <points> rendered
\* afterwards.  kept: pointsRef.current was a <points> object, which stays;
\* otherwise <points> is rendered anew with its empty <bufferGeometry />
PointsGeometry(kept, u) == IF kept THEN ExtractedVertices(u) ELSE 0

StillMounted_NoCheck(e) == TRUE

\* the mounted check after the await (and in the catch block)
StillMounted(e) == effects[e].mounted

\* continuation of the effect's async function once the awaited load settled
Resume(e) ==
    /\ e \in 1..Len(effects)
    /\ ~effects[e].settled
    /\ loads[effects[e].load].status # "inflight"
    /\ effects' = [effects EXCEPT ![e].settled = TRUE]
    /\ IF ~StillMounted(e)
       THEN UNCHANGED <<comp, onLoadCalls, onErrorCalls>>
       ELSE IF loads[effects[e].load].status = "ok"
       THEN /\ \E kept \in (IF effects[e].pointsRef THEN BOOLEAN ELSE {FALSE}) :
                  comp' = [comp EXCEPT !.gltf = effects[e].load, !.loading = FALSE,
                                       !.points = PointsGeometry(kept, effects[e].url),
                                       !.onLoadArg = ExtractedVertices(effects[e].url)]
            /\ onLoadCalls' = onLoadCalls + 1
            /\ UNCHANGED onErrorCalls
       ELSE /\ comp' = [comp EXCEPT !.error = TRUE, !.loading = FALSE, !.points = NoPoints]
            /\ onErrorCalls' = onErrorCalls + 1
            /\ UNCHANGED onLoadCalls
    /\ UNCHANGED <<modelCache, loadingPromises, loads, calls, particleVars, animVars>>

-----------------------------------------------------------------------------
(* Part II - fixed point units, configuration, inputs *)

\* Resolution of the random source: Math.random() returns j*j / RandRes for a
\* j in 0..SqrtRes-1, so that Math.sqrt of a draw is exact in fixed point.
SqrtRes == 10
RandRes == SqrtRes * SqrtRes
\* 1.0 for barycentric weights, and for the coordinates and UVs of particles
WeightOne == SqrtRes * RandRes
\* number of random sequences Math.random() may follow during one operation
NumStreams == 2

\* life += 0.005 * animationSpeed: one life unit is 0.005, so 1.0 is 200 units
LifeOne == 200
\* PARTICLE_SYSTEM_CONFIG.LIFECYCLE.PHASES, in life units
GROW_END == 50
SHRINK_START == 150
SHRINK_END == 200
\* PARTICLE_SYSTEM_CONFIG.SIMULATION.EMISSIVE_COUNT
EMISSIVE_COUNT == 4
\* PARTICLE_SYSTEM_CONFIG.SURFACE_SAMPLING
MIN_SAMPLES == 12
AREA_MULTIPLIER == 1000
\* FALLBACK_UV.u = FALLBACK_UV.v = 0.5
FALLBACK_UV == WeightOne \div 2
\* RENDERING.SCALE.EMISSIVE_MULTIPLIER = 1.5, in tenths
EMISSIVE_MULTIPLIER == 15
\* particleScale control, default 0.014, in thousandths
ParticleScale == 14

\* leva ranges: animationSpeed 0.0..3.0, particleDensity 0.1..3.0 (in tenths),
\* surfaceSampling 4..128 step 4
AnimationSpeeds == {0, 3}
ParticleDensities == {1, 30}
SurfaceSamplings == {4, 16}

\* the values of the controls
ControlValues ==
    [animationSpeed : AnimationSpeeds, particleDensity : ParticleDensities,
     surfaceSampling : SurfaceSamplings]

\* the k-th call (k = 0, 1, ...) of Math.random() in an operation whose random
\* sequence is s, as a count of RandRes-ths
Rand(s, k) ==
    LET j == IF s = 1 THEN (7 * k) % SqrtRes
             ELSE IF s = 2 THEN SqrtRes - 1
             ELSE (3 * s + 7 * k) % SqrtRes
    IN j * j

\* Math.sqrt of a draw, in SqrtRes-ths
Sqrt(r) == CHOOSE q \in 0..SqrtRes : q * q <= r /\ r < (q + 1) * (q + 1)

\* undefined (a read past the end of an array)
Undef == -1

\* vectors
Sub(a, b) == <<a[1] - b[1], a[2] - b[2], a[3] - b[3]>>
Cross(a, b) == <<a[2] * b[3] - a[3] * b[2], a[3] * b[1] - a[1] * b[3], a[1] * b[2] - a[2] * b[1]>>
LengthSq(a) == a[1] * a[1] + a[2] * a[2] + a[3] * a[3]

\* face meshes a gltf may hold: vertex coordinates and UVs are whole numbers,
\* triangles is the number of triangles of the index list (or of the
\* non-indexed position array)
TriangleMesh == [positions |-> << <<0,0,0>>, <<1,0,0>>, <<0,1,0>> >>, hasUV |-> TRUE,
                 uvs |-> << <<0,0>>, <<1,0>>, <<0,1>> >>, triangles |-> 1]
QuadMesh     == [positions |-> << <<0,0,0>>, <<1,0,0>>, <<1,1,0>>, <<0,1,0>> >>, hasUV |-> TRUE,
                 uvs |-> << <<0,0>>, <<1,0>>, <<1,1>>, <<0,1>> >>, triangles |-> 2]
BackQuadMesh == [positions |-> << <<0,0,0>>, <<0,1,0>>, <<1,1,0>>, <<1,0,0>> >>, hasUV |-> TRUE,
                 uvs |-> << <<0,0>>, <<0,1>>, <<1,1>>, <<1,0>> >>, triangles |-> 2]
SoupMesh     == [positions |-> << <<0,0,0>>, <<1,0,0>>, <<1,1,0>>, <<0,0,0>>, <<1,1,0>>, <<0,1,0>> >>,
                 hasUV |-> TRUE,
                 uvs |-> << <<0,0>>, <<1,0>>, <<1,1>>, <<0,0>>, <<1,1>>, <<0,1>> >>, triangles |-> 2]
NoUVMesh     == [positions |-> << <<0,0,0>>, <<1,0,0>>, <<0,1,0>> >>, hasUV |-> FALSE,
                 uvs |-> <<>>, triangles |-> 1]
Meshes == {TriangleMesh, QuadMesh, BackQuadMesh, SoupMesh, NoUVMesh}
\* the meshes the frame loop is run on
FrameMeshes == {TriangleMesh, QuadMesh, NoUVMesh}

-----------------------------------------------------------------------------
(* Part II - extraction useMemo (surface resampling) *)

NoData == [positions |-> <<>>, uvs |-> <<>>, count |-> 0]

\* normal.z < BACK_FACE_CULLING_THRESHOLD (-0.3) for the normalized cross
\* product c; normalize() leaves the zero vector as it is
BackFaceCulled(c) ==
    /\ LengthSq(c) > 0
    /\ c[3] < 0
    /\ 100 * c[3] * c[3] > 9 * LengthSq(c)

\* area = normal.length() of the normalized normal: 1, or 0 for a degenerate triangle
Area(c) == IF LengthSq(c) > 0 THEN 1 ELSE 0

Min(a, b) == IF a < b THEN a ELSE b
Max(a, b) == IF a > b THEN a ELSE b

\* Math.min(surfaceSampling, Math.max(MIN_SAMPLES, Math.floor(area * AREA_MULTIPLIER * particleDensity)))
SampleCount(c, ctl) ==
    Min(ctl.surfaceSampling,
        Max(MIN_SAMPLES, (Area(c) * AREA_MULTIPLIER * ctl.particleDensity) \div 10))

\* the triangle loop runs for i = 9k while i < positions.length - 9
TriangleLoopRuns(m, k) == 9 * k < 3 * Len(m.positions) - 9

Barycentric_NoSqrt(r1, r2) ==
    [a |-> WeightOne - r1 * SqrtRes, b |-> Sqrt(r1) * (RandRes - r2), c |-> Sqrt(r1) * r2]

\* barycentric weights of the draws r1, r2: a = 1 - sqrt(r1), b = sqrt(r1) * (1 - r2),
\* c = sqrt(r1) * r2, in WeightOne-ths
Barycentric(r1, r2) ==
    [a |-> WeightOne - Sqrt(r1) * RandRes, b |-> Sqrt(r1) * (RandRes - r2), c |-> Sqrt(r1) * r2]

\* one sample of the triangle starting at vertex 3k+1
SamplePoint(m, k, r1, r2) ==
    LET w == Barycentric(r1, r2)
        v1 == m.positions[3 * k + 1]
        v2 == m.positions[3 * k + 2]
        v3 == m.positions[3 * k + 3]
    IN [pos |-> <<w.a * v1[1] + w.b * v2[1] + w.c * v3[1],
                  w.a * v1[2] + w.b * v2[2] + w.c * v3[2],
                  w.a * v1[3] + w.b * v2[3] + w.c * v3[3]>>,
        uv  |-> IF 6 * k + 4 + 1 < 2 * Len(m.uvs)
                THEN <<w.a * m.uvs[3 * k + 1][1] + w.b * m.uvs[3 * k + 2][1] + w.c * m.uvs[3 * k + 3][1],
                       w.a * m.uvs[3 * k + 1][2] + w.b * m.uvs[3 * k + 2][2] + w.c * m.uvs[3 * k + 3][2]>>
                ELSE <<FALLBACK_UV, FALLBACK_UV>>]

\* the samples of triangles k, k+1, ...; n random draws were made before
RECURSIVE SurfaceSamples(_, _, _, _, _)
SurfaceSamples(m, ctl, s, k, n) ==
    IF ~TriangleLoopRuns(m, k) THEN <<>>
    ELSE LET c   == Cross(Sub(m.positions[3 * k + 2], m.positions[3 * k + 1]),
                          Sub(m.positions[3 * k + 3], m.positions[3 * k + 1]))
             cnt == IF BackFaceCulled(c) THEN 0 ELSE SampleCount(c, ctl)
         IN [j \in 1..cnt |-> SamplePoint(m, k, Rand(s, n + 2 * (j - 1)), Rand(s, n + 2 * (j - 1) + 1))]
            \o SurfaceSamples(m, ctl, s, k + 1, n + 2 * cnt)

\* one particle per original vertex
VertexParticles(m) ==
    [i \in 1..Len(m.positions) |->
        [pos |-> <<WeightOne * m.positions[i][1], WeightOne * m.positions[i][2],
                   WeightOne * m.positions[i][3]>>,
         uv  |-> IF i <= Len(m.uvs)
                 THEN <<WeightOne * m.uvs[i][1], WeightOne * m.uvs[i][2]>>
                 ELSE <<Undef, Undef>>]]

\* the value of the extraction useMemo for mesh m under controls ctl
Extract(m, ctl, s) ==
    IF ~m.hasUV THEN NoData
    ELSE LET ps == VertexParticles(m) \o SurfaceSamples(m, ctl, s, 0, 0)
         IN [positions |-> [i \in 1..Len(ps) |-> ps[i].pos],
             uvs       |-> [i \in 1..Len(ps) |-> ps[i].uv],
             count     |-> Len(ps)]

-----------------------------------------------------------------------------
(* Part II - particleUtils *)

\* ParticleCountCalculator.getEmissiveParticleIndices (0-based indices)
getEmissiveParticleIndices(particleCount) == 0..(Min(EMISSIVE_COUNT, particleCount) - 1)

\* 1.0 as an instance scale: particleScale (thousandths) * scaleMultiplier
\* (LifeOne-ths) * emissive multiplier (tenths)
ScaleOne == 1000 * LifeOne * 10

\* ParticleDataGenerator.generateInitialParticleData; each particle draws
\* three velocity components, then life, then maxLife
generateInitialParticleData(positions, emissiveIndices, s) ==
    [i \in 1..Len(positions) |->
        [position   |-> positions[i],
         life       |-> (Rand(s, 5 * (i - 1) + 3) * LifeOne) \div RandRes,
         maxLife    |-> RandRes + 2 * Rand(s, 5 * (i - 1) + 4),
         scale      |-> ScaleOne,
         isEmissive |-> (i - 1) \in emissiveIndices]]

\* ParticleLifecycleUtils.getLifecyclePhase
getLifecyclePhase(normalizedLife) ==
    IF normalizedLife <= GROW_END THEN "GROWING"
    ELSE IF normalizedLife <= SHRINK_START THEN "STABLE"
    ELSE IF normalizedLife < SHRINK_END THEN "SHRINKING"
    ELSE "DEAD"

\* three.js MathUtils.smoothstep(x, min, max), numbers in LifeOne-ths
smoothstep(x, min, max) ==
    IF x <= min THEN 0
    ELSE IF x >= max THEN LifeOne
    ELSE LET t == ((x - min) * LifeOne) \div (max - min)
         IN (t * t * (3 * LifeOne - 2 * t)) \div (LifeOne * LifeOne)

\* ParticleLifecycleUtils.calculateLifecycleState
calculateLifecycleState(normalizedLife) ==
    LET phase == getLifecyclePhase(normalizedLife)
        growProgress   == (normalizedLife * LifeOne) \div GROW_END
        stableProgress == ((normalizedLife - GROW_END) * LifeOne) \div (SHRINK_START - GROW_END)
        shrinkProgress == ((normalizedLife - SHRINK_START) * LifeOne) \div (SHRINK_END - SHRINK_START)
    IN CASE phase = "GROWING" ->
              [phase |-> phase, phaseProgress |-> growProgress,
               scaleMultiplier |-> smoothstep(0, LifeOne, growProgress)]
         [] phase = "STABLE" ->
              [phase |-> phase, phaseProgress |-> stableProgress, scaleMultiplier |-> LifeOne]
         [] phase = "SHRINKING" ->
              [phase |-> phase, phaseProgress |-> shrinkProgress,
               scaleMultiplier |-> smoothstep(LifeOne, 0, shrinkProgress)]
         [] phase = "DEAD" ->
              [phase |-> phase, phaseProgress |-> LifeOne, scaleMultiplier |-> 0]

-----------------------------------------------------------------------------
(* Part II - InstancedSphereParticles: render, initialize effect, useFrame *)

NoMesh == [count |-> 0, instanceMatrix |-> <<>>]

\* no frame callback got past its guard yet
NoFrame == [particles |-> 0, instances |-> 0, lifeData |-> 0, uv |-> 0, respawned |-> {}]

\* a new InstancedMesh(geometry, material, count): identity instance matrices
NewInstancedMesh(count) ==
    [count |-> count,
     instanceMatrix |-> [i \in 1..count |-> [pos |-> <<0, 0, 0>>, scale |-> ScaleOne]]]

\* uvs[i]?.u || FALLBACK_UV.u: undefined and 0 are both falsy
OrFallback(x) == IF x = Undef \/ x = 0 THEN FALLBACK_UV ELSE x

\* the component renders with the control values ctl: the extraction useMemo
\* (deps gltf, particleDensity, surfaceSampling) is recomputed when stale, the
\* <instancedMesh args={[geometry, material, count]}> is rebuilt when its args
\* changed (the sphere material memo depends on animationSpeed) or removed
\* when the component returns null, and the initialize effect is scheduled
\* when extractedData is a new object.  The panel changes one control at a time.
Render(ctl) ==
    /\ Cardinality({f \in DOMAIN ctl : ctl[f] # controls[f]}) = 1
    /\ controls' = ctl
    /\ LET stale == ctl.particleDensity # controls.particleDensity
                    \/ ctl.surfaceSampling # controls.surfaceSampling
       IN /\ IF stale
             THEN \E s \in 1..NumStreams : extractedData' = Extract(mesh, ctl, s)
             ELSE extractedData' = extractedData
          /\ effectPending' = (effectPending \/ (stale /\ extractedData' # NoData))
    /\ meshRef' = IF extractedData'.count = 0 THEN NoMesh
                  ELSE IF meshRef = NoMesh
                          \/ meshRef.count # extractedData'.count
                          \/ ctl.animationSpeed # controls.animationSpeed
                       THEN NewInstancedMesh(extractedData'.count)
                       ELSE meshRef
    /\ UNCHANGED <<mesh, particlesRef, instanceUV, instanceLifeData, seen, overlay, loaderVars, animVars>>

\* the initialize-particles effect (deps extractedData, currentGeometry, actualParticleCount)
InitializeParticles ==
    /\ effectPending
    /\ effectPending' = FALSE
    /\ IF extractedData = NoData \/ meshRef = NoMesh \/ extractedData.count = 0
       THEN UNCHANGED <<particlesRef, instanceUV, instanceLifeData>>
       ELSE \E s \in 1..NumStreams :
              LET particles == generateInitialParticleData(
                                   extractedData.positions,
                                   getEmissiveParticleIndices(Len(extractedData.positions)), s)
              IN /\ particlesRef' = particles
                 /\ instanceUV' = [i \in 1..Len(particles) |->
                                     <<OrFallback(extractedData.uvs[i][1]),
                                       OrFallback(extractedData.uvs[i][2])>>]
                 /\ instanceLifeData' = [i \in 1..Len(particles) |->
                                     [life |-> particles[i].life, maxLife |-> particles[i].maxLife,
                                      isEmissive |-> particles[i].isEmissive,
                                      scale |-> particles[i].scale]]
    /\ UNCHANGED <<mesh, controls, extractedData, meshRef, seen, overlay, loaderVars, animVars>>

AdvanceLife_NoWrap(life, animationSpeed) == life + animationSpeed

\* particle.life += 0.005 * animationSpeed; if (particle.life > 1.0) particle.life = 0.0
AdvanceLife(life, animationSpeed) ==
    IF life + animationSpeed > LifeOne THEN 0 ELSE life + animationSpeed

UpdateParticle_Drift(particle, animationSpeed, offset) ==
    [particle EXCEPT !.life = AdvanceLife(particle.life, animationSpeed),
                     !.position = <<particle.position[1], particle.position[2] + offset,
                                    particle.position[3]>>]

\* the particle record after the per-particle body of the frame callback: the
\* animation offset goes to dummy.position, a copy
UpdateParticle(particle, animationSpeed, offset) ==
    [particle EXCEPT !.life = AdvanceLife(particle.life, animationSpeed)]

FinalScale_Stored(particle) == particle.scale

\* finalScale of a particle whose life was already advanced
FinalScale(particle) ==
    ParticleScale * calculateLifecycleState(particle.life).scaleMultiplier
        * (IF particle.isEmissive THEN EMISSIVE_MULTIPLIER ELSE 10)

\* Math.sin(time + i * 0.1) * 0.02 at its maximum, in WeightOne-ths
AnimOffsets == {(2 * WeightOne) \div 100}

\* the useFrame callback; offset is Math.sin(time + i * 0.1) * 0.02.  Writes
\* past the end of a typed array are dropped.
Frame(offset) ==
    /\ meshRef # NoMesh
    /\ Len(particlesRef) # 0
    /\ particlesRef' = [i \in 1..Len(particlesRef) |->
                           UpdateParticle(particlesRef[i], controls.animationSpeed, offset)]
    /\ meshRef' = [meshRef EXCEPT !.instanceMatrix =
                     [i \in 1..meshRef.count |->
                        IF i <= Len(particlesRef)
                        THEN [pos |-> <<particlesRef[i].position[1],
                                        particlesRef[i].position[2] + offset,
                                        particlesRef[i].position[3]>>,
                              scale |-> FinalScale(particlesRef'[i])]
                        ELSE meshRef.instanceMatrix[i]]]
    /\ instanceLifeData' = [i \in 1..Len(instanceLifeData) |->
                              IF i <= Len(particlesRef)
                              THEN [life |-> particlesRef'[i].life,
                                    maxLife |-> particlesRef'[i].maxLife,
                                    isEmissive |-> particlesRef'[i].isEmissive,
                                    scale |-> FinalScale(particlesRef'[i])]
                              ELSE instanceLifeData[i]]
    /\ seen' = [particles |-> Len(particlesRef), instances |-> meshRef.count,
                lifeData |-> Len(instanceLifeData), uv |-> Len(instanceUV),
                respawned |-> {i \in 1..Len(particlesRef) :
                                 particlesRef[i].life + controls.animationSpeed > LifeOne}]
    /\ UNCHANGED <<mesh, controls, extractedData, instanceUV, effectPending, overlay, loaderVars, animVars>>

-----------------------------------------------------------------------------
(* Part II - UnifiedWireframeToParticleTransition: particle attribute setup *)

\* Math.min(SURFACE_SAMPLING.MAX_SAMPLES, ...): the configuration has no
\* MAX_SAMPLES, so the sample count is NaN and the sample loop never runs
OverlaySampleCount == 0

\* particleData of the overlay: the original vertices and OverlaySampleCount
\* samples per visited triangle; nothing when the mesh has no uv attribute
OverlayParticleCount(m) ==
    IF ~m.hasUV THEN 0
    ELSE Len(m.positions)
         + OverlaySampleCount * Cardinality({k \in 0..Len(m.positions) : TriangleLoopRuns(m, k)})

\* Math.random() > 0.8
OverlayEmissive(r) == 10 * r > 8 * RandRes

\* instanceLifeData of the overlay: life and isEmissive are drawn per particle
OverlaySetup(s) ==
    /\ overlay = <<>>
    /\ OverlayParticleCount(mesh) > 0
    /\ overlay' = [i \in 1..OverlayParticleCount(mesh) |->
                     [life |-> (Rand(s, 2 * (i - 1)) * LifeOne) \div RandRes,
                      maxLife |-> RandRes,
                      isEmissive |-> OverlayEmissive(Rand(s, 2 * (i - 1) + 1)),
                      scale |-> ScaleOne]]
    /\ UNCHANGED <<mesh, controls, extractedData, meshRef, particlesRef, instanceUV,
                   instanceLifeData, effectPending, seen, loaderVars, animVars>>

-----------------------------------------------------------------------------
(* Part III - UnifiedWireframeToParticleTransition / AnimatedWireframeReveal:
   the looping animation driven by useFrame and setTimeout *)

\* time is counted in ticks of half a second
TicksPerSecond == 2
\* the clock runs up to MaxClock ticks
MaxClock == 24
\* TRANSITION_CONFIG, in ticks
TOTAL_DURATION == 8 * TicksPerSecond
WIREFRAME_REVEAL_DURATION == 2 * TicksPerSecond
WIREFRAME_HOLD_DURATION == 3
WIREFRAME_DISAPPEAR_DURATION == 5
LOOP_DELAY == 1 * TicksPerSecond

\* animationStartTime === null
NoStartTime == -1
\* 1.0 for the progress uniforms
ProgressOne == 10000

\* easingFunctions.easeInOutCubic of t = n / d:
\* t < 0.5 ? 4*t*t*t : 1 - Math.pow(-2*t + 2, 3) / 2
easeInOutCubic(n, d) ==
    IF 2 * n < d
    THEN (4 * n * n * n * ProgressOne) \div (d * d * d)
    ELSE ProgressOne - ((2 * d - 2 * n) * (2 * d - 2 * n) * (2 * d - 2 * n) * ProgressOne)
                            \div (2 * d * d * d)

\* the component after its first render with autoStart = true
TransitionMounted(loop) ==
    [clock |-> 0, framed |-> FALSE, timers |-> {}, loop |-> loop,
     isAnimating |-> TRUE, animationStartTime |-> NoStartTime,
     currentPhase |-> "wireframe_reveal", completed |-> 0,
     uTime |-> 0, uTransitionProgress |-> 0, uRevealHeight |-> 0, uIsDisappearing |-> FALSE]

\* half a second passes; a timeout that is due runs before time moves on
TransitionTick ==
    /\ transition.clock < MaxClock
    /\ \A t \in transition.timers : t.due > transition.clock
    /\ transition' = [transition EXCEPT !.clock = @ + 1, !.framed = FALSE]
    /\ UNCHANGED <<loaderVars, particleVars, trails, probe>>

\* the phase branch of the frame callback for an elapsed time within the cycle
PhaseUpdate(t, elapsed) ==
    LET wireframeRevealEnd == WIREFRAME_REVEAL_DURATION
        wireframeHoldEnd == wireframeRevealEnd + WIREFRAME_HOLD_DURATION
        wireframeDisappearEnd == wireframeHoldEnd + WIREFRAME_DISAPPEAR_DURATION
    IN IF elapsed <= wireframeRevealEnd
       THEN [t EXCEPT !.currentPhase = "wireframe_reveal",
                      !.uRevealHeight = easeInOutCubic(elapsed, wireframeRevealEnd),
                      !.uTransitionProgress = 0,
                      !.uIsDisappearing = FALSE]
       ELSE IF elapsed <= wireframeHoldEnd
       THEN [t EXCEPT !.currentPhase = "wireframe_hold",
                      !.uRevealHeight = ProgressOne,
                      !.uTransitionProgress = 0,
                      !.uIsDisappearing = FALSE]
       ELSE IF elapsed <= wireframeDisappearEnd
       THEN LET easedProgress == easeInOutCubic(elapsed - wireframeHoldEnd,
                                                WIREFRAME_DISAPPEAR_DURATION)
            IN [t EXCEPT !.currentPhase = "transition",
                         !.uRevealHeight = ProgressOne - easedProgress,
                         !.uTransitionProgress = easedProgress,
                         !.uIsDisappearing = TRUE]
       ELSE [t EXCEPT !.currentPhase = "particles_only",
                      !.uRevealHeight = 0,
                      !.uTransitionProgress = ProgressOne,
                      !.uIsDisappearing = TRUE]

\* setTimeout(() => { if (isAnimating) ... }, LOOP_DELAY * 1000): one more
\* pending timeout, whose closure holds the isAnimating of this render
ScheduleRestart(t) ==
    t.timers \cup {[due |-> t.clock + LOOP_DELAY, isAnimating |-> t.isAnimating]}

CycleComplete_KeepsAnimating(t) ==
    IF t.loop THEN [t EXCEPT !.timers = ScheduleRestart(t)]
    ELSE [t EXCEPT !.completed = @ + 1]

\* the CYCLE COMPLETE branch: a restart timeout when looping, otherwise
\* setIsAnimating(false); onAnimationComplete?.()
CycleComplete(t) ==
    IF t.loop THEN [t EXCEPT !.timers = ScheduleRestart(t)]
    ELSE [t EXCEPT !.isAnimating = FALSE, !.completed = @ + 1]

\* the useFrame callback (at most one frame per tick)
TransitionFrame ==
    /\ ~transition.framed
    /\ LET t == [transition EXCEPT !.framed = TRUE, !.uTime = transition.clock]
           elapsed == t.clock - t.animationStartTime
       IN transition' =
            IF ~t.isAnimating THEN t
            ELSE IF t.animationStartTime = NoStartTime
            THEN [t EXCEPT !.animationStartTime = t.clock]
            ELSE IF elapsed <= TOTAL_DURATION THEN PhaseUpdate(t, elapsed)
            ELSE CycleComplete(t)
    /\ UNCHANGED <<loaderVars, particleVars, trails, probe>>

\* a pending timeout runs
TransitionTimeout(tm) ==
    /\ tm \in transition.timers
    /\ tm.due <= transition.clock
    /\ transition' =
          IF tm.isAnimating
          THEN [transition EXCEPT !.timers = @ \ {tm},
                                  !.animationStartTime = NoStartTime,
                                  !.currentPhase = "wireframe_reveal"]
          ELSE [transition EXCEPT !.timers = @ \ {tm}]
    /\ UNCHANGED <<loaderVars, particleVars, trails, probe>>

-----------------------------------------------------------------------------
(* Part III - VerticalTrails / TrailActor *)

\* the speed prop may change up to MaxSpeedChanges times
MaxSpeedChanges == 1
\* trailCount and trailSpeed values (leva: trailSpeed 1.0..2.0); the actors share
\* no state, one of them stands for each
TrailCounts == {1}
TrailSpeeds == {1, 2}
\* maxLifespan 0.5 and trailHeight 1.0 (defaults), in tenths
MaxLifespan == 5
\* a longer maxLifespan (leva: 0.5 to 10 in steps of 0.5): 1.5
LongLifespan == 15
TrailHeight == 10
MAX_TRAIL_LENGTH == 12
\* heights are in thousandths, stepSize = 0.1
StepSize == 100
\* life is in ten-thousandths: life += speed * 0.01
TrailLifeStep == 100

\* -2 + Math.random() * (trailHeight + 2), in thousandths
SpawnHeight(r) == -2000 + (r * (TrailHeight + 20) * 100) \div RandRes
\* 2 + Math.floor(Math.random() * 3)
MinSteps(r) == 2 + (3 * r) \div RandRes
\* maxLifespan * (0.5 + Math.random() * 0.5), in ten-thousandths
TrailMaxLife(r, maxLifespan) == (maxLifespan * 1000 * (RandRes + r)) \div (2 * RandRes)
\* facePosition.y + trailHeight + 1, in thousandths (facePosition.y = 0)
HeightLimit == TrailHeight * 100 + 1000

\* the value of the state ref a TrailActor is created with; s is the random
\* sequence its draws follow.  angle is the draw of the spawn angle; turns
\* counts the steps of stepSize / faceRadius taken around the cylinder;
\* maxLifespan is the prop of the actor.
NewActor(s, maxLifespan) ==
    [y |-> SpawnHeight(Rand(s, 1)), angle |-> Rand(s, 0), turns |-> 0,
     trail |-> <<>>, framesSinceReset |-> 0, lastDirection |-> "up",
     stepsSinceLastTurn |-> 0, minStepsBeforeNextTurn |-> MinSteps(Rand(s, 2)),
     horizontalMovesRemaining |-> 0, life |-> 0, maxLife |-> TrailMaxLife(Rand(s, 3), maxLifespan),
     isDead |-> FALSE, isDying |-> FALSE,
     stream |-> s, draws |-> 4, cause |-> "none", maxLifespan |-> maxLifespan]

CurrentPosition(a) == <<a.y, a.angle, a.turns>>

\* the effect on [speed]: framesSinceReset = 0; trail = [currentPosition.clone()]
SpeedEffect(a) == [a EXCEPT !.framesSinceReset = 0, !.trail = <<CurrentPosition(a)>>]

Respawn_StaysDead(a, s) == [NewActor(s, a.maxLifespan) EXCEPT !.cause = a.cause, !.isDead = TRUE]

\* the respawn branch of the frame callback; cause remembers how the actor died
Respawn(a, s) == [NewActor(s, a.maxLifespan) EXCEPT !.cause = a.cause]

\* framesSinceReset % Math.ceil(60 / (speed * 10)) === 0
IsMoveFrame(frames, speed) == frames % ((60 + 10 * speed - 1) \div (10 * speed)) = 0

Decide_ThreeMoves(a) ==
    IF a.horizontalMovesRemaining > 0
    THEN [a EXCEPT !.horizontalMovesRemaining = @ - 1]
    ELSE IF a.lastDirection = "up" /\ a.stepsSinceLastTurn >= a.minStepsBeforeNextTurn
    THEN IF 10 * Rand(a.stream, a.draws) < 3 * RandRes
         THEN [a EXCEPT !.lastDirection = IF 2 * Rand(a.stream, a.draws + 1) < RandRes
                                          THEN "left" ELSE "right",
                        !.horizontalMovesRemaining = 2,
                        !.stepsSinceLastTurn = 0,
                        !.minStepsBeforeNextTurn = MinSteps(Rand(a.stream, a.draws + 2)),
                        !.draws = @ + 3]
         ELSE [a EXCEPT !.lastDirection = "up", !.stepsSinceLastTurn = @ + 1, !.draws = @ + 1]
    ELSE [a EXCEPT !.lastDirection = "up", !.stepsSinceLastTurn = @ + 1]

\* the choice of the next direction, with the bookkeeping it does
Decide(a) ==
    IF a.horizontalMovesRemaining > 0
    THEN [a EXCEPT !.horizontalMovesRemaining = @ - 1]
    ELSE IF a.lastDirection = "up" /\ a.stepsSinceLastTurn >= a.minStepsBeforeNextTurn
    THEN IF 10 * Rand(a.stream, a.draws) < 3 * RandRes
         THEN [a EXCEPT !.lastDirection = IF 2 * Rand(a.stream, a.draws + 1) < RandRes
                                          THEN "left" ELSE "right",
                        !.horizontalMovesRemaining = 1,
                        !.stepsSinceLastTurn = 0,
                        !.minStepsBeforeNextTurn = MinSteps(Rand(a.stream, a.draws + 2)),
                        !.draws = @ + 3]
         ELSE [a EXCEPT !.lastDirection = "up", !.stepsSinceLastTurn = @ + 1, !.draws = @ + 1]
    ELSE [a EXCEPT !.lastDirection = "up", !.stepsSinceLastTurn = @ + 1]

\* the step to the next position
Step(a) ==
    IF a.lastDirection = "up" THEN [a EXCEPT !.y = @ + StepSize]
    ELSE IF a.lastDirection = "left" THEN [a EXCEPT !.turns = @ + 1]
    ELSE [a EXCEPT !.turns = @ - 1]

\* trail.push(currentPosition.clone()); if (trail.length > MAX_TRAIL_LENGTH) trail.shift()
Push(trail, p) ==
    IF Len(trail) + 1 > MAX_TRAIL_LENGTH THEN Tail(Append(trail, p)) ELSE Append(trail, p)

\* the trail handling after a move; tube is the variant with a dying phase
BuildTrail(a, tube) ==
    IF tube /\ a.isDying
    THEN LET consumed == IF Len(a.trail) > 0 THEN Tail(a.trail) ELSE a.trail
         IN IF Len(consumed) = 0
            THEN [a EXCEPT !.trail = consumed, !.isDead = TRUE, !.cause = "consumed"]
            ELSE [a EXCEPT !.trail = consumed]
    ELSE [a EXCEPT !.trail = Push(a.trail, CurrentPosition(a))]

\* the part of the frame callback after the speed control
Move(a, tube) ==
    LET moved == Step(Decide(a))
    IN IF moved.y > HeightLimit
       THEN [moved EXCEPT !.isDead = TRUE, !.cause = "height"]
       ELSE BuildTrail(moved, tube)

\* the useFrame callback of one TrailActor; s is the random sequence a
\* respawn in this frame starts
ActorFrame(a, speed, tube, s) ==
    LET aged == [a EXCEPT !.framesSinceReset = @ + 1, !.life = @ + TrailLifeStep * speed]
        marked == IF aged.life < aged.maxLife THEN aged
                  ELSE IF ~tube THEN [aged EXCEPT !.isDead = TRUE, !.cause = "lifespan"]
                  ELSE IF ~aged.isDying THEN [aged EXCEPT !.isDying = TRUE]
                  ELSE aged
    IN IF marked.isDead THEN Respawn(marked, s)
       ELSE IF ~IsMoveFrame(marked.framesSinceReset, speed) THEN marked
       ELSE Move(marked, tube)

\* one rendered frame: the callback of every TrailActor runs
TrailFrame ==
    /\ trails.trailsEnabled
    /\ \E ss \in [1..Len(trails.actors) -> 1..NumStreams] :
          trails' = [trails EXCEPT !.actors =
                        [i \in 1..Len(trails.actors) |->
                            ActorFrame(trails.actors[i], trails.speed, trails.tube, ss[i])]]
    /\ UNCHANGED <<loaderVars, particleVars, transition, probe>>

\* the trailSpeed prop changes (control, or the kickstart of App): every
\* actor's effect on [speed] runs
TrailSpeedChange(v) ==
    /\ trails.trailsEnabled
    /\ v # trails.speed
    /\ trails.speedChanges < MaxSpeedChanges
    /\ trails' = [trails EXCEPT !.speed = v, !.speedChanges = @ + 1,
                                !.actors = [i \in 1..Len(trails.actors) |->
                                               SpeedEffect(trails.actors[i])]]
    /\ UNCHANGED <<loaderVars, particleVars, transition, probe>>

\* VerticalTrails after mount: trailCount actors, each after its mount effect
TrailsMounted(count, speed, tube, maxLifespan, ss) ==
    [trailsEnabled |-> TRUE, speed |-> speed, speedChanges |-> 0, tube |-> tube,
     actors |-> [i \in 1..count |-> SpeedEffect(NewActor(ss[i], maxLifespan))]]

\* if (!trailsEnabled) return null
TrailsDisabled ==
    [trailsEnabled |-> FALSE, speed |-> 1, speedChanges |-> 0, tube |-> FALSE, actors |-> <<>>]

InitTrails ==
    \E count \in TrailCounts, speed \in TrailSpeeds, tube \in BOOLEAN :
        \E ss \in [1..count -> 1..NumStreams] :
            trails = TrailsMounted(count, speed, tube, MaxLifespan, ss)

\* the trails with the maxLifespan control raised
InitLongTrails ==
    \E count \in TrailCounts, speed \in TrailSpeeds, tube \in BOOLEAN :
        \E ss \in [1..count -> 1..NumStreams] :
            trails = TrailsMounted(count, speed, tube, LongLifespan, ss)

NextTrails ==
    \/ TrailFrame
    \/ \E v \in TrailSpeeds : TrailSpeedChange(v)

-----------------------------------------------------------------------------
(* Part IV - functions, called on their own *)

NoCall == [fn |-> "none", in |-> <<>>, out |-> <<>>]

\* a call of function fn with arguments in that returns out
Call(fn, in, out) ==
    /\ probe' = [fn |-> fn, in |-> in, out |-> out]
    /\ UNCHANGED <<loaderVars, particleVars, transition, trails>>

(* mesh selection: a scene is the sequence of its meshes in traversal order,
   each mesh given by the count of its position attribute *)

\* a scene holds up to MaxMeshes meshes
MaxMeshes == 3
VertexCounts == {0, 3, 4, 6}
Scenes == UNION {[1..n -> VertexCounts] : n \in 0..MaxMeshes}

\* MeshExtractor.findMeshes: the meshes in traversal order
findMeshes(scene) == [i \in 1..Len(scene) |-> i]

\* MeshExtractor.extractFirstMesh: the mesh passed to extractGeometry, 0 for null
extractFirstMesh(scene) ==
    LET meshes == findMeshes(scene)
    IN IF Len(meshes) = 0 THEN 0 ELSE meshes[1]

\* the loop of extractLargestMesh from the k-th mesh on
RECURSIVE LargestFrom(_, _, _, _)
LargestFrom(scene, k, largestMesh, maxVertices) ==
    IF k > Len(scene) THEN largestMesh
    ELSE IF scene[k] > maxVertices THEN LargestFrom(scene, k + 1, k, scene[k])
    ELSE LargestFrom(scene, k + 1, largestMesh, maxVertices)

\* MeshExtractor.extractLargestMesh: the mesh passed to extractGeometry, 0 for null
extractLargestMesh(scene) ==
    LET meshes == findMeshes(scene)
    IN IF Len(meshes) = 0 THEN 0 ELSE LargestFrom(scene, 1, meshes[1], scene[meshes[1]])

\* the traversal of the particle generators from the k-th mesh on:
\* if (child.isMesh && child.geometry) faceGeometry = child.geometry
RECURSIVE TraverseFrom(_, _, _)
TraverseFrom(scene, k, faceGeometry) ==
    IF k > Len(scene) THEN faceGeometry
    ELSE TraverseFrom(scene, k + 1, k)

\* the mesh whose geometry the particle generators use, 0 for null
TraverseFaceGeometry(scene) == TraverseFrom(scene, 1, 0)

CallExtractFirstMesh(scene) == Call("extractFirstMesh", scene, extractFirstMesh(scene))
CallExtractLargestMesh(scene) == Call("extractLargestMesh", scene, extractLargestMesh(scene))
CallTraverseFaceGeometry(scene) == Call("faceGeometry", scene, TraverseFaceGeometry(scene))

(* surface sampling *)

\* the values Math.random() may return, as a count of RandRes-ths
Draws == {j * j : j \in 0..(SqrtRes - 1)}
\* meshes with a uv attribute
SampledMeshes == {m \in Meshes : m.hasUV}

\* one pass of the sampling loop body for the first triangle of mesh m with
\* the draws r1, r2: the weights <<a, b, c>> and the particle pushed
CallSurfaceSample(m, r1, r2) ==
    LET w == Barycentric(r1, r2)
    IN Call("surfaceSample", <<m, r1, r2>>, <<<<w.a, w.b, w.c>>, SamplePoint(m, 0, r1, r2)>>)

(* particle lifecycle *)

\* life values: 0.0 to 1.0 in steps of 0.005
LifeValues == 0..LifeOne

CallGetLifecyclePhase(life) == Call("getLifecyclePhase", life, getLifecyclePhase(life))

CallCalculateLifecycleState(life) ==
    Call("calculateLifecycleState", life, calculateLifecycleState(life))

(* sample count *)

\* cross products of two triangle edges, in CrossOne-ths: triangles facing
\* the camera whose cross product has magnitude 0, 0.005, 0.008 and 1
CrossOne == 1000
CrossProducts == {<<0, 0, z>> : z \in {0, 5, 8, CrossOne}}

CallSampleCount(c, ctl) ==
    Call("sampleCount", <<c, ctl.particleDensity, ctl.surfaceSampling>>, SampleCount(c, ctl))

(* lifecycle alpha of the fragment shader *)

\* instancedParticles.frag main: the branch that computes alpha for vLifeData.x
ShaderPhase(life) ==
    IF life < GROW_END THEN "GROWING"
    ELSE IF life < SHRINK_START THEN "STABLE"
    ELSE "SHRINKING"

CallShaderPhase(life) == Call("shaderPhase", life, ShaderPhase(life))

(* configuration validation *)

\* a field of a partial configuration is <<v>>, or <<>> when the caller left
\* it out
Missing == <<>>
Given(v) == <<v>>

\* PARTICLE_SYSTEM_CONFIG.SIMULATION.PARTICLE_COUNT
\* 256 * 256 and 128 * 128
PARTICLE_COUNT_DESKTOP == 65536
PARTICLE_COUNT_MOBILE == 16384

\* the limit on particleCount that validateConfig and sanitizeConfig share
MAX_PARTICLE_COUNT == 1000000

\* baseScale is kept in thousandths: 0.03 and 0.001
SCALE_BASE == 30
MIN_BASE_SCALE == 1

\* DeviceDetection.getRecommendedQualityLevel, for a device given by
\* isMobileDevice() and hasLimitedMemory()
getRecommendedQualityLevel(isMobile, limited) ==
    IF limited THEN "low" ELSE IF isMobile THEN "medium" ELSE "high"

\* the multipliers of calculateParticleCount, in quarters
QualityQuarters(level) ==
    CASE level = "low" -> 1
      [] level = "medium" -> 2
      [] level = "high" -> 4
      [] level = "ultra" -> 6

\* ParticleCountCalculator.calculateParticleCount()
calculateParticleCount(isMobile, limited) ==
    LET baseCount == IF isMobile THEN PARTICLE_COUNT_MOBILE ELSE PARTICLE_COUNT_DESKTOP
        level == getRecommendedQualityLevel(isMobile, limited)
    IN (baseCount * QualityQuarters(level)) \div 4

\* x || d of a numeric field: undefined and 0 are falsy
OrDefault(x, d) == IF x = Missing \/ x[1] = 0 THEN d ELSE x[1]

\* a configuration is <<particleCount, emissiveCount, baseScale>>
\* ConfigValidator.validateConfig: the list of error messages
validateConfig(config) ==
    LET particleCount == config[1]
        emissiveCount == config[2]
        baseScale == config[3]
        e1 == IF particleCount # Missing /\ particleCount[1] < 1
              THEN <<"Particle count must be greater than 0">> ELSE <<>>
        e2 == IF particleCount # Missing /\ particleCount[1] > MAX_PARTICLE_COUNT
              THEN <<"Particle count too high (max: 1,000,000)">> ELSE <<>>
        e3 == IF emissiveCount # Missing /\ emissiveCount[1] < 0
              THEN <<"Emissive count cannot be negative">> ELSE <<>>
        e4 == IF /\ emissiveCount # Missing
                 /\ particleCount # Missing
                 /\ particleCount[1] # 0
                 /\ emissiveCount[1] > particleCount[1]
              THEN <<"Emissive count cannot exceed total particle count">> ELSE <<>>
        e5 == IF baseScale # Missing /\ baseScale[1] <= 0
              THEN <<"Base scale must be greater than 0">> ELSE <<>>
    IN e1 \o e2 \o e3 \o e4 \o e5

\* ConfigValidator.sanitizeConfig on a device given by isMobile and limited
sanitizeConfig(config, isMobile, limited) ==
    LET defaultCount == calculateParticleCount(isMobile, limited)
    IN << Given(Max(1, Min(MAX_PARTICLE_COUNT, OrDefault(config[1], defaultCount)))),
          Given(Max(0, Min(OrDefault(config[1], defaultCount),
                           OrDefault(config[2], EMISSIVE_COUNT)))),
          Given(Max(MIN_BASE_SCALE, OrDefault(config[3], SCALE_BASE))) >>

\* partial configurations: each field left out, below, at and above its limits
ParticleCounts ==
    {Missing} \cup {Given(v) : v \in {0 - 5, 0, 1, EMISSIVE_COUNT - 1,
                                      MAX_PARTICLE_COUNT, 2 * MAX_PARTICLE_COUNT}}
EmissiveCounts ==
    {Missing} \cup {Given(v) : v \in {0 - 1, 0, EMISSIVE_COUNT, EMISSIVE_COUNT + 1,
                                      MAX_PARTICLE_COUNT + 1}}
BaseScales ==
    {Missing} \cup {Given(v) : v \in {0 - SCALE_BASE, 0, MIN_BASE_SCALE, SCALE_BASE}}
Configs == ParticleCounts \X EmissiveCounts \X BaseScales

CallSanitizeConfig(config, isMobile, limited) ==
    LET clean == sanitizeConfig(config, isMobile, limited)
    IN Call("sanitizeConfig", <<config, isMobile, limited>>, <<clean, validateConfig(clean)>>)

NextFunctions ==
    \/ \E config \in Configs, isMobile \in BOOLEAN, limited \in BOOLEAN :
           CallSanitizeConfig(config, isMobile, limited)
    \/ \E life \in LifeValues : CallShaderPhase(life)
    \/ \E c \in CrossProducts, ctl \in ControlValues : CallSampleCount(c, ctl)
    \/ \E life \in LifeValues : CallGetLifecyclePhase(life)
    \/ \E life \in LifeValues : CallCalculateLifecycleState(life)
    \/ \E scene \in Scenes : CallExtractFirstMesh(scene)
    \/ \E scene \in Scenes : CallExtractLargestMesh(scene)
    \/ \E scene \in Scenes : CallTraverseFaceGeometry(scene)
    \/ \E m \in SampledMeshes, r1 \in Draws, r2 \in Draws : CallSurfaceSample(m, r1, r2)

\* the animation components are not part of the scene
AnimIdle == transition = TransitionMounted(TRUE) /\ trails = TrailsDisabled /\ probe = NoCall

InitTransition == transition \in {TransitionMounted(loop) : loop \in BOOLEAN}

Timeouts == [due : 0..(MaxClock + LOOP_DELAY), isAnimating : BOOLEAN]

NextTransition ==
    \/ TransitionTick
    \/ TransitionFrame
    \/ \E tm \in Timeouts : TransitionTimeout(tm)

-----------------------------------------------------------------------------
(* Specifications *)

\* the particle component before it is mounted
ParticlesIdle ==
    /\ mesh = NoUVMesh
    /\ controls = [animationSpeed |-> 3, particleDensity |-> 30, surfaceSampling |-> 4]
    /\ extractedData = NoData
    /\ meshRef = NoMesh
    /\ particlesRef = <<>>
    /\ instanceUV = <<>>
    /\ instanceLifeData = <<>>
    /\ effectPending = FALSE
    /\ seen = NoFrame
    /\ overlay = <<>>

\* the state after the first render of InstancedSphereParticles: the gltf is
\* loaded (useLoader suspends until then), the memo is computed, the
\* instancedMesh exists when there are particles, the effect is scheduled
InitParticles ==
    /\ mesh \in Meshes
    /\ controls \in ControlValues
    /\ \E s \in 1..NumStreams : extractedData = Extract(mesh, controls, s)
    /\ meshRef = IF extractedData.count = 0 THEN NoMesh ELSE NewInstancedMesh(extractedData.count)
    /\ particlesRef = <<>>
    /\ instanceUV = <<>>
    /\ instanceLifeData = <<>>
    /\ effectPending = TRUE
    /\ seen = NoFrame
    /\ overlay = <<>>

\* the control values the frame loop is run under: particleDensity stays at its default 3.0
FrameControls == {ctl \in ControlValues : ctl.particleDensity = 30}

NextParticles ==
    \/ \E ctl \in FrameControls : Render(ctl)
    \/ InitializeParticles
    \/ \E offset \in AnimOffsets : Frame(offset)

\* particle sets as they are created: no frame callback
NextSampling ==
    \/ \E ctl \in ControlValues : Render(ctl)
    \/ InitializeParticles
    \/ \E s \in 1..NumStreams : OverlaySetup(s)

LoaderIdle ==
    /\ modelCache = [u \in Urls |-> 0]
    /\ loadingPromises = [u \in Urls |-> 0]
    /\ loads = <<>>
    /\ calls = <<>>
    /\ comp = CompUnmounted
    /\ effects = <<>>
    /\ onLoadCalls = 0
    /\ onErrorCalls = 0

InitLoader == LoaderIdle /\ ParticlesIdle /\ AnimIdle

NextLoader ==
    \/ \E u \in Urls : CallLoadModel(u)
    \/ ClearModelCache
    \/ \E l \in 1..MaxLoads : LoadSuccess(l)
    \/ \E l \in 1..MaxLoads : LoadFailure(l)
    \/ \E u \in Urls : Mount(u)
    \/ \E u \in Urls : ChangeDeps(u)
    \/ Unmount
    \/ \E e \in 1..MaxEffects : Resume(e)

SpecLoader == InitLoader /\ [][NextLoader]_vars

\* the loading component on its own: every loadModel call is the effect's
NextComponent ==
    \/ ClearModelCache
    \/ \E l \in 1..MaxLoads : LoadSuccess(l)
    \/ \E l \in 1..MaxLoads : LoadFailure(l)
    \/ \E u \in Urls : Mount(u)
    \/ \E u \in Urls : ChangeDeps(u)
    \/ Unmount
    \/ \E e \in 1..MaxEffects : Resume(e)

SpecComponent == InitLoader /\ [][NextComponent]_vars

InitParticleSystem == LoaderIdle /\ InitParticles /\ AnimIdle

InitFrames == InitParticleSystem /\ mesh \in FrameMeshes /\ controls \in FrameControls

SpecParticles == InitFrames /\ [][NextParticles]_vars

\* the particle system left to run: the controls stay as they are
NextParticleFrames ==
    \/ InitializeParticles
    \/ \E offset \in AnimOffsets : Frame(offset)

\* the frame callback runs on every rendered frame and a scheduled effect is run
SpecParticleFrames ==
    InitFrames /\ [][NextParticleFrames]_vars
        /\ WF_vars(\E offset \in AnimOffsets : Frame(offset))
        /\ WF_vars(InitializeParticles)

SpecSampling == InitParticleSystem /\ [][NextSampling]_vars

InitTransitionSystem ==
    LoaderIdle /\ ParticlesIdle /\ InitTransition /\ trails = TrailsDisabled /\ probe = NoCall

SpecTransition == InitTransitionSystem /\ [][NextTransition]_vars

InitTrailSystem ==
    LoaderIdle /\ ParticlesIdle /\ transition = TransitionMounted(TRUE) /\ InitTrails
        /\ probe = NoCall

\* frames keep being rendered while the canvas is mounted
SpecTrails == InitTrailSystem /\ [][NextTrails]_vars /\ WF_vars(TrailFrame)

InitLongTrailSystem ==
    LoaderIdle /\ ParticlesIdle /\ transition = TransitionMounted(TRUE) /\ InitLongTrails
        /\ probe = NoCall

SpecLongTrails == InitLongTrailSystem /\ [][NextTrails]_vars

\* no function has been called
InitFunctions == LoaderIdle /\ ParticlesIdle /\ AnimIdle

SpecFunctions == InitFunctions /\ [][NextFunctions]_vars

-----------------------------------------------------------------------------
(* Claims about Part I *)

\* C1: for any interleaving of loadModel, clearModelCache and loader
\* callbacks, at most one loader.load per url is in flight, and a loadModel
\* call made while a load of its url is in flight or has succeeded starts no
\* load of its own and resolves to that load's result.
C1_SingleFlightSharedResult ==
    /\ \A u \in Urls : Cardinality(InFlight(u)) <= 1
    /\ \A c \in 1..Len(calls) :
          calls[c].live # {} => (~calls[c].started /\ calls[c].load \in calls[c].live)

\* C24: the completion of a load that was in flight when the cache was
\* cleared leaves modelCache as it was and leaves the loadingPromises entry
\* of a newer load alone, so an entry of modelCache is always the result of
\* a load issued after the latest clear.
C24_ClearedLoadsStayOut ==
    /\ [](\A u \in Urls : modelCache[u] # 0 => ~loads[modelCache[u]].cleared)
    /\ [][\A l \in 1..Len(loads) :
            (loads[l].cleared /\ loads[l].status = "inflight" /\ loads'[l].status # "inflight")
                => /\ modelCache' = modelCache
                   /\ LET u == loads[l].url
                      IN loadingPromises[u] # 0 => loadingPromises'[u] = loadingPromises[u]]_vars

\* C25: when the loader reports an error for a load of url, every caller
\* that was handed that load sees it rejected, url is afterwards in neither
\* modelCache nor loadingPromises (so the next loadModel(url) starts a fresh
\* load), and no loadModel call is handed a load that has already failed.
C25_FailureLeavesNoEntry ==
    /\ [][\A l \in 1..Len(loads) :
            (loads[l].status = "inflight" /\ loads'[l].status = "failed")
                => LET u == loads[l].url
                   IN /\ modelCache'[u] = 0
                      /\ loadingPromises'[u] = 0
                      /\ \A c \in 1..Len(calls) :
                            calls[c].load = l => loads'[calls'[c].load].status = "failed"
                      /\ \A e \in 1..Len(effects) :
                            effects[e].load = l => loads'[effects'[e].load].status = "failed"]_vars
    /\ [][/\ Len(calls') > Len(calls) =>
                LET ld == calls'[Len(calls')].load
                IN ld \in 1..Len(loads) => loads[ld].status # "failed"
          /\ Len(effects') > Len(effects) =>
                LET ld == effects'[Len(effects')].load
                IN ld \in 1..Len(loads) => loads[ld].status # "failed"]_vars

\* C27: while a mounted ParticleFace renders its points object (loading is
\* false, no error), the geometry of that object holds one position per
\* extracted vertex (the 1000 of the test pattern when the model has no
\* vertices), the count passed to onLoad.
C27_PointsHoldVertices ==
    (comp.mounted /\ ~comp.loading /\ ~comp.error) =>
        /\ comp.onLoadArg = ExtractedVertices(comp.url)
        /\ comp.points = comp.onLoadArg

\* C10: when the continuation of an effect run whose cleanup has already been
\* called (unmount, or a changed url) runs, the component state and the
\* onLoad/onError invocation counts stay as they were; and the cleanup
\* leaves every load issued so far as it was (nothing is cancelled).
C10_NoUpdateAfterCleanup ==
    [][\A e \in 1..Len(effects) :
          /\ (~effects[e].mounted /\ ~effects[e].settled /\ effects'[e].settled)
                => (comp' = comp /\ onLoadCalls' = onLoadCalls /\ onErrorCalls' = onErrorCalls)
          /\ (effects[e].mounted /\ ~effects'[e].mounted)
                => (\A l \in 1..Len(loads) : loads'[l] = loads[l])]_vars

\* an effect run was cleaned up while its load was in flight, that load has
\* since succeeded, and the continuation has run
C10_Witness ==
    \E e \in 1..Len(effects) :
        /\ effects[e].abandoned
        /\ effects[e].settled
        /\ loads[effects[e].load].status = "ok"

\* C11: once the awaited load has been rejected and the mounted component
\* has entered the error state (loading = false, error set), it stays in that
\* state for as long as it stays mounted with the same url.
C11_ErrorStateUntilUrlChanges ==
    [][(/\ comp.mounted /\ comp.error /\ ~comp.loading
        /\ comp'.mounted /\ comp'.url = comp.url)
            => (comp'.error /\ ~comp'.loading)]_vars

\* C12: with loop enabled, the start time of a cycle, once set, is reset
\* only after that cycle has run past its total duration (each completed
\* cycle is restarted once).
C12_RestartOnce ==
    [][(/\ transition.loop
        /\ transition.animationStartTime # NoStartTime
        /\ transition'.animationStartTime = NoStartTime)
            => transition.clock - transition.animationStartTime > TOTAL_DURATION]_vars

\* an actor as the respawn step leaves it
Fresh(a) ==
    /\ a.life = 0 /\ a.trail = <<>> /\ a.framesSinceReset = 0
    /\ ~a.isDead /\ ~a.isDying

InCycle(t) == t.isAnimating /\ t.animationStartTime # NoStartTime

TransitionPhaseRank(phase) ==
    IF phase = "wireframe_reveal" THEN 0 ELSE IF phase = "wireframe_hold" THEN 1
    ELSE IF phase = "transition" THEN 2 ELSE 3

\* C23: while a cycle is running uTransitionProgress is 0 in wireframe_reveal
\* and wireframe_hold and 1 in particles_only; within one cycle the phase
\* never moves back, and from one frame to the frame of the next half second
\* it stays or moves to the next phase of wireframe_reveal, wireframe_hold,
\* transition, particles_only (so that each phase is entered).
C23_PhasesInOrder ==
    /\ [](InCycle(transition) =>
            /\ transition.currentPhase \in {"wireframe_reveal", "wireframe_hold"}
                  => transition.uTransitionProgress = 0
            /\ transition.currentPhase = "particles_only"
                  => transition.uTransitionProgress = ProgressOne)
    /\ [][(/\ InCycle(transition) /\ InCycle(transition')
           /\ transition'.animationStartTime = transition.animationStartTime)
             => LET before == TransitionPhaseRank(transition.currentPhase)
                    after == TransitionPhaseRank(transition'.currentPhase)
                IN /\ after >= before
                   /\ transition'.uTime = transition.uTime + 1 => after <= before + 1]_vars

\* a frame in which the actor took a movement step (a respawn sets
\* framesSinceReset to 0, a skipped frame leaves the position alone)
Stepped(a, b) ==
    /\ b.framesSinceReset = a.framesSinceReset + 1
    /\ (b.y # a.y \/ b.turns # a.turns)

Sideways(a) == a.lastDirection \in {"left", "right"}

\* C28: horizontalMovesRemaining is 0 or 1 and minStepsBeforeNextTurn is 2 to
\* 4; a movement step that follows an UP step (or the spawn) is sideways
\* only when at least minStepsBeforeNextTurn UP steps were taken since the
\* last turn, and one more sideways step is then due; a step that follows
\* the first sideways step of a run is sideways in the same direction; a
\* step that follows the second is UP; stepsSinceLastTurn counts the UP steps.
C28_TurnsInPairs ==
    /\ [](\A i \in 1..Len(trails.actors) :
            /\ trails.actors[i].horizontalMovesRemaining \in {0, 1}
            /\ trails.actors[i].minStepsBeforeNextTurn \in 2..4)
    /\ [][\A i \in 1..Len(trails.actors) :
            LET a == trails.actors[i]
                b == trails'.actors[i]
            IN (Len(trails'.actors) = Len(trails.actors) /\ Stepped(a, b)) =>
                 /\ (~Sideways(a) /\ Sideways(b)) =>
                        /\ a.stepsSinceLastTurn >= a.minStepsBeforeNextTurn
                        /\ b.horizontalMovesRemaining = 1
                        /\ b.stepsSinceLastTurn = 0
                 /\ (Sideways(a) /\ a.horizontalMovesRemaining = 1) =>
                        /\ b.lastDirection = a.lastDirection
                        /\ b.horizontalMovesRemaining = 0
                 /\ (Sideways(a) /\ a.horizontalMovesRemaining = 0) => ~Sideways(b)
                 /\ ~Sideways(b) => b.stepsSinceLastTurn = a.stepsSinceLastTurn + 1
                 /\ Sideways(b) => b.y = a.y /\ b.turns # a.turns
                 /\ ~Sideways(b) => b.y # a.y /\ b.turns = a.turns]_vars

\* an actor has taken the first step of its second run since the respawn:
\* it has just turned, and not from where it was spawned
C28_Witness ==
    \E i \in 1..Len(trails.actors) :
        LET a == trails.actors[i]
        IN /\ Sideways(a) /\ a.horizontalMovesRemaining = 1
           /\ \/ a.turns \in {3, -3}
              \/ a.turns = 1 /\ a.lastDirection = "right"
              \/ a.turns = -1 /\ a.lastDirection = "left"

\* the trail t is what is left of the trail s after points were removed
\* from its tail end (the oldest points)
IsRestOf(t, s) == \E k \in 0..Len(s) : t = SubSeq(s, k + 1, Len(s))

\* C29: in the variant with a dying phase, the frame in which life reaches
\* maxLife makes the actor dying; while it is dying no step adds a trail
\* point, a movement step removes exactly one, every other step leaves the
\* trail alone, and the actor is respawned only after its trail was consumed.
C29_DyingConsumesTrail ==
    [][(trails.tube /\ Len(trails'.actors) = Len(trails.actors)) =>
         \A i \in 1..Len(trails.actors) :
            LET a == trails.actors[i]
                b == trails'.actors[i]
                frame == trails'.speed = trails.speed
                respawned == frame /\ b.framesSinceReset = 0
            IN /\ (frame /\ ~a.isDead /\ a.life + TrailLifeStep * trails.speed >= a.maxLife)
                     => b.isDying
               /\ a.isDying =>
                     IF respawned THEN a.cause = "consumed"
                     ELSE /\ b.isDying
                          /\ IsRestOf(b.trail, a.trail)
                          /\ IF Stepped(a, b) /\ Len(a.trail) > 0
                             THEN Len(b.trail) = Len(a.trail) - 1
                             ELSE b.trail = a.trail]_vars

-----------------------------------------------------------------------------
(* Claims about Part IV *)

\* C14: for a scene of more than one mesh, the mesh selected by
\* extractFirstMesh, by extractLargestMesh and by the traversal of the
\* particle generators is the first mesh in traversal order or a mesh of the
\* largest vertex count.
C14_FirstOrLargestMesh ==
    (probe.fn \in {"extractFirstMesh", "extractLargestMesh", "faceGeometry"}
        /\ Len(probe.in) > 1)
    => \/ probe.out = 1
       \/ /\ probe.out \in 1..Len(probe.in)
          /\ \A k \in 1..Len(probe.in) : probe.in[k] <= probe.in[probe.out]

\* C15: for all draws r1, r2 the barycentric weights a, b, c of a surface
\* sample are each in [0,1] and sum to 1, and the sample's position and its
\* UV are the combinations of the triangle's vertex positions and of its
\* vertex UVs with these same weights.
C15_BarycentricWeights ==
    probe.fn = "surfaceSample" =>
        LET w == probe.out[1]
            m == probe.in[1]
            p == probe.out[2]
        IN /\ \A k \in 1..3 : w[k] \in 0..WeightOne
           /\ w[1] + w[2] + w[3] = WeightOne
           /\ \A x \in 1..3 :
                 p.pos[x] = w[1] * m.positions[1][x] + w[2] * m.positions[2][x]
                                + w[3] * m.positions[3][x]
           /\ \A x \in 1..2 :
                 p.uv[x] = w[1] * m.uvs[1][x] + w[2] * m.uvs[2][x] + w[3] * m.uvs[3][x]

\* a sample strictly inside a triangle whose vertices have three different UVs
C15_Witness ==
    /\ probe.fn = "surfaceSample"
    /\ \A k \in 1..3 : probe.out[1][k] > 0
    /\ probe.out[2].uv[1] > 0 /\ probe.out[2].uv[2] > 0

\* C16: getLifecyclePhase returns GROWING exactly when life < GROW_END,
\* STABLE exactly when GROW_END <= life < SHRINK_START and SHRINKING exactly
\* when SHRINK_START <= life < 1 (so 0.25 is STABLE and 0.75 is SHRINKING).
C16_HalfOpenPhases ==
    probe.fn = "getLifecyclePhase" =>
        /\ (probe.out = "GROWING") <=> (probe.in < GROW_END)
        /\ (probe.out = "STABLE") <=> (GROW_END <= probe.in /\ probe.in < SHRINK_START)
        /\ (probe.out = "SHRINKING") <=> (SHRINK_START <= probe.in /\ probe.in < LifeOne)

\* the smooth easing t*t*(3 - 2t), t and the result in LifeOne-ths
SmoothEasing(t) == (t * t * (3 * LifeOne - 2 * t)) \div (LifeOne * LifeOne)

\* C17: in the growing phase the scale multiplier of calculateLifecycleState
\* is the smooth easing of t = life / GROW_END, and in the shrinking phase it
\* is 1 minus the smooth easing of
\* t = (life - SHRINK_START) / (SHRINK_END - SHRINK_START).
C17_SmoothRamps ==
    probe.fn = "calculateLifecycleState" =>
        /\ probe.out.phase = "GROWING" =>
              probe.out.scaleMultiplier = SmoothEasing((probe.in * LifeOne) \div GROW_END)
        /\ probe.out.phase = "SHRINKING" =>
              probe.out.scaleMultiplier =
                  LifeOne - SmoothEasing(((probe.in - SHRINK_START) * LifeOne)
                                            \div (SHRINK_END - SHRINK_START))

\* C19: the number of samples of a triangle is
\* clamp(floor(area * AREA_MULTIPLIER * particleDensity), MIN_SAMPLES, surfaceSampling)
\* with area the magnitude of the unnormalized cross product, never below
\* MIN_SAMPLES nor above surfaceSampling.
C19_SampleCountByArea ==
    probe.fn = "sampleCount" =>
        LET particleDensity == probe.in[2]
            surfaceSampling == probe.in[3]
            raw == (probe.in[1][3] * AREA_MULTIPLIER * particleDensity) \div (CrossOne * 10)
        IN /\ probe.out = Max(MIN_SAMPLES, Min(raw, surfaceSampling))
           /\ probe.out >= MIN_SAMPLES
           /\ probe.out <= surfaceSampling

\* C21: for every life in [0,1] the phase the fragment shader uses for the
\* lifecycle alpha is the phase getLifecyclePhase returns for that life,
\* the boundary values 0.25 and 0.75 included.
C21_ShaderPhaseIsCpuPhase ==
    probe.fn = "shaderPhase" => probe.out = getLifecyclePhase(probe.in)

\* C30: whatever numeric fields a partial configuration holds, what
\* sanitizeConfig returns passes validateConfig with no error message, with
\* 1 <= particleCount <= 1000000, 0 <= emissiveCount <= particleCount and
\* baseScale > 0.
C30_SanitizedIsValid ==
    probe.fn = "sanitizeConfig" =>
        LET particleCount == probe.out[1][1][1]
            emissiveCount == probe.out[1][2][1]
            baseScale == probe.out[1][3][1]
        IN /\ probe.out[2] = <<>>
           /\ 1 <= particleCount /\ particleCount <= MAX_PARTICLE_COUNT
           /\ 0 <= emissiveCount /\ emissiveCount <= particleCount
           /\ baseScale > 0

-----------------------------------------------------------------------------
(* Claims about Part II *)

\* a step of the frame callback (the only step that leaves the controls, the
\* memo and the scheduled effect alone)
IsFrameStep ==
    /\ controls' = controls
    /\ extractedData' = extractedData
    /\ effectPending' = effectPending
    /\ overlay' = overlay

EmissiveCount(lifeData) == Cardinality({i \in 1..Len(lifeData) : lifeData[i].isEmissive})

\* C2: for a mesh with V vertices and T triangles the number of particles the
\* resampling produces is at least V + T * MIN_SAMPLES and at most
\* V + T * surfaceSampling.
C2_CountWithinBounds ==
    mesh.hasUV =>
        /\ extractedData.count >= Len(mesh.positions) + mesh.triangles * MIN_SAMPLES
        /\ extractedData.count <= Len(mesh.positions) + mesh.triangles * controls.surfaceSampling

\* C3 as claimed: after initialization and after every frame each particle's
\* life is in [0, 1), never exactly 1.0.
C3_LifeBelowOne ==
    \A i \in 1..Len(particlesRef) : particlesRef[i].life >= 0 /\ particlesRef[i].life < LifeOne

\* C3 as amended: after initialization and after every frame each particle's
\* life, and the life written to instanceLifeData, is in [0, 1]; it is never
\* above 1.0.
C3_LifeAtMostOne ==
    /\ \A i \in 1..Len(particlesRef) : particlesRef[i].life \in 0..LifeOne
    /\ \A i \in 1..Len(instanceLifeData) : instanceLifeData[i].life \in 0..LifeOne

\* a frame has left a particle at exactly 1.0
C3_Witness ==
    /\ seen.particles > 0
    /\ \E i \in 1..Len(particlesRef) : particlesRef[i].life = LifeOne

\* C4: when a frame pushes a particle's life above 1.0, the life stored at
\* the end of the frame is in [0, 1), the phase and the scale written in that
\* frame are those of life 0, and the particle's position is unchanged.
C4_RespawnIsLifeZero ==
    [][IsFrameStep =>
         \A i \in 1..Len(particlesRef) :
            particlesRef[i].life + controls.animationSpeed > LifeOne =>
              /\ Len(particlesRef') = Len(particlesRef)
              /\ particlesRef'[i].life \in 0..(LifeOne - 1)
              /\ calculateLifecycleState(particlesRef'[i].life).phase
                   = calculateLifecycleState(0).phase
              /\ instanceLifeData'[i].scale
                   = ParticleScale * calculateLifecycleState(0).scaleMultiplier
                       * (IF particlesRef[i].isEmissive THEN EMISSIVE_MULTIPLIER ELSE 10)
              /\ i <= meshRef.count =>
                   meshRef'.instanceMatrix[i].scale = instanceLifeData'[i].scale
              /\ particlesRef'[i].position = particlesRef[i].position]_vars

\* the latest frame respawned a particle
C4_Witness ==
    /\ seen.respawned # {}
    /\ \E i \in seen.respawned : i <= Len(particlesRef) /\ particlesRef[i].life = 0

\* C5: over life from 0 to 1 the scale multiplier of calculateLifecycleState
\* does not decrease while growing, is 1 while stable, does not increase
\* while shrinking, is 0 at life 0 and approaches 0 as life approaches 1 (it
\* is at most 1/4 over the last twentieth of the cycle).
C5_ScaleProfile ==
    \A i \in 1..Len(particlesRef) :
        LET life == particlesRef[i].life
            now  == calculateLifecycleState(life)
            prev == calculateLifecycleState(life - 1)
        IN /\ life = 0 => now.scaleMultiplier = 0
           /\ (now.phase = "GROWING" /\ life > 0) => now.scaleMultiplier >= prev.scaleMultiplier
           /\ now.phase = "STABLE" => now.scaleMultiplier = LifeOne
           /\ now.phase = "SHRINKING" => now.scaleMultiplier <= prev.scaleMultiplier
           /\ (20 * life >= 19 * LifeOne /\ life < LifeOne) => 4 * now.scaleMultiplier <= LifeOne

\* C6: for a mesh without a uv attribute the resampling produces at least one
\* particle per vertex, each carrying the fallback UV.
C6_NoUVGivesFallbackParticles ==
    (~mesh.hasUV /\ ~effectPending) =>
        /\ Len(particlesRef) >= Len(mesh.positions)
        /\ Len(instanceUV) = Len(particlesRef)
        /\ \A i \in 1..Len(instanceUV) : instanceUV[i] = <<FALLBACK_UV, FALLBACK_UV>>

\* C7: in every particle set, the overlay's included, at most
\* min(EMISSIVE_COUNT, particle count) particles are flagged isEmissive.
C7_EmissiveBound ==
    /\ EmissiveCount(particlesRef) <= Min(EMISSIVE_COUNT, Len(particlesRef))
    /\ EmissiveCount(instanceLifeData) <= Min(EMISSIVE_COUNT, Len(instanceLifeData))
    /\ EmissiveCount(overlay) <= Min(EMISSIVE_COUNT, Len(overlay))

\* C8: a frame changes only life and the derived scale: the particle count
\* and every particle's position, UV, maxLife and isEmissive flag stay as the
\* initialization left them.
C8_FrameKeepsIdentity ==
    [][IsFrameStep =>
         /\ Len(particlesRef') = Len(particlesRef)
         /\ instanceUV' = instanceUV
         /\ Len(instanceLifeData') = Len(instanceLifeData)
         /\ \A i \in 1..Len(particlesRef) :
              /\ particlesRef'[i].position = particlesRef[i].position
              /\ particlesRef'[i].maxLife = particlesRef[i].maxLife
              /\ particlesRef'[i].isEmissive = particlesRef[i].isEmissive
         /\ \A i \in 1..Len(instanceLifeData) :
              /\ instanceLifeData'[i].maxLife = instanceLifeData[i].maxLife
              /\ instanceLifeData'[i].isEmissive = instanceLifeData[i].isEmissive]_vars

\* frames have run with a non-zero animation offset and have written a derived scale
C8_Witness ==
    /\ seen.particles > 0
    /\ \E i \in 1..meshRef.count :
         /\ i <= Len(particlesRef)
         /\ meshRef.instanceMatrix[i].pos # particlesRef[i].position
         /\ instanceLifeData[i].scale # ScaleOne

\* C9: every frame callback iterates a particle array, instanceUV and
\* instanceLifeData attributes and an instanced mesh that were allocated for
\* the same count.
C9_FrameSeesOneAllocation ==
    /\ seen.particles = seen.instances
    /\ seen.particles = seen.lifeData
    /\ seen.particles = seen.uv

\* the samples the loop draws when it visits every consecutive triple of
\* positions from the k-th on
RECURSIVE AllTriangleSamples(_, _, _)
AllTriangleSamples(m, ctl, k) ==
    IF 3 * k + 3 > Len(m.positions) THEN 0
    ELSE SampleCount(Cross(Sub(m.positions[3 * k + 2], m.positions[3 * k + 1]),
                           Sub(m.positions[3 * k + 3], m.positions[3 * k + 1])), ctl)
         + AllTriangleSamples(m, ctl, k + 1)

\* C18: the resampler visits every consecutive triple of positions, the last
\* one included, and draws its samples from each whatever its facing: the
\* particle count is the vertex count plus the samples of all triples.
C18_EveryTriangleSampled ==
    mesh.hasUV =>
        extractedData.count = Len(mesh.positions) + AllTriangleSamples(mesh, controls, 0)

\* C20: once the initialize-particles effect has run, instanceUV holds for
\* every particle that has a UV entry exactly that UV (0 included), and
\* instanceLifeData holds its life, maxLife, isEmissive and scale.
C20_PackingKeepsValues ==
    (~effectPending /\ Len(instanceUV) > 0) =>
        /\ Len(instanceUV) = Len(particlesRef) /\ Len(instanceLifeData) = Len(particlesRef)
        /\ \A i \in 1..Len(particlesRef) :
              /\ \A x \in 1..2 :
                    instanceUV[i][x] = IF extractedData.uvs[i][x] = Undef THEN FALLBACK_UV
                                       ELSE extractedData.uvs[i][x]
              /\ instanceLifeData[i].life = particlesRef[i].life
              /\ instanceLifeData[i].maxLife = particlesRef[i].maxLife
              /\ instanceLifeData[i].isEmissive = particlesRef[i].isEmissive
              /\ instanceLifeData[i].scale = particlesRef[i].scale


\* the indices a particle can have
ParticleIds ==
    UNION {1..(Len(m.positions) + m.triangles * s) : m \in FrameMeshes, s \in SurfaceSamplings}

\* the place of a phase in the cycle
PhaseRank(phase) ==
    IF phase = "GROWING" THEN 0 ELSE IF phase = "STABLE" THEN 1
    ELSE IF phase = "SHRINKING" THEN 2 ELSE 3

\* C22: while frames keep being rendered, for every animationSpeed of the
\* control panel every particle's life wraps back to 0 again and again, and
\* in a frame that does not wrap it the particle's phase stays or moves to
\* the next one of growing, stable, shrinking.
C22_ParticlesCycleForever ==
    /\ \A i \in ParticleIds :
          []<>(i \in 1..Len(particlesRef) => i \in seen.respawned)
    /\ [][IsFrameStep =>
            \A i \in 1..Len(particlesRef) :
               i \notin seen'.respawned =>
                  LET before == PhaseRank(getLifecyclePhase(particlesRef[i].life))
                      after == PhaseRank(getLifecyclePhase(particlesRef'[i].life))
                  IN after \in {before, before + 1}]_vars

====
